---- MODULE Spec2Model ----
(***************************************************************************)
(* CSelect: fd_zero, fd_setter, fd_isset and fd_clr, the callable wrappers *)
(* of the platform's FD_ZERO / FD_SET / FD_ISSET / FD_CLR macros           *)
(* (Sources/CSelect/select.c).  An fd_set is an array of FD_SETSIZE /      *)
(* NFDBITS words of NFDBITS bits each; descriptor d lives in word          *)
(* d / NFDBITS at bit d % NFDBITS.  The platform's 1024 descriptors in     *)
(* 64-bit words are scaled to two words of NFDBITS bits.                   *)
(***************************************************************************)
EXTENDS Integers, FiniteSets, Sequences, TLC

\* Bits per word of the bitmap (the platform's __NFDBITS, scaled down).
NFDBITS == 2

\* Words of one fd_set: the length of fds_bits, __FD_SETSIZE / __NFDBITS
\* (16 on the platform; two words are modelled).
NumWords == 2

\* Capacity of an fd_set: a whole number of words, fds_bits[FD_SETSIZE / NFDBITS].
FD_SETSIZE == NumWords * NFDBITS

\* Calls the two threads of the concurrent specification begin in total.
MaxCalls == 3

Words == 0 .. ((FD_SETSIZE \div NFDBITS) - 1)

\* The valid descriptors, 0 <= d < FD_SETSIZE.
Descriptors == 0 .. (FD_SETSIZE - 1)

Valid(d) == d \in Descriptors

\* The descriptors callers pass when they do not respect the range: one
\* word's worth below zero and one word's worth past the end.
AnyDescriptor == (0 - NFDBITS) .. (FD_SETSIZE + NFDBITS - 1)

\* C's integer division and remainder truncate toward zero.
CDiv(a, n) == IF a >= 0 THEN a \div n ELSE 0 - ((0 - a) \div n)

CMod(a, n) == a - (n * CDiv(a, n))

RECURSIVE BitOrN(_, _, _)
BitOrN(a, b, n) ==
    IF n = 0 THEN 0
    ELSE (IF (a % 2 = 1) \/ (b % 2 = 1) THEN 1 ELSE 0)
         + 2 * BitOrN(a \div 2, b \div 2, n - 1)

RECURSIVE BitAndN(_, _, _)
BitAndN(a, b, n) ==
    IF n = 0 THEN 0
    ELSE (IF (a % 2 = 1) /\ (b % 2 = 1) THEN 1 ELSE 0)
         + 2 * BitAndN(a \div 2, b \div 2, n - 1)

\* a | b, a & b and ~a on words of NFDBITS bits.
BitOr(a, b) == BitOrN(a, b, NFDBITS)

BitAnd(a, b) == BitAndN(a, b, NFDBITS)

BitNot(a) == ((2 ^ NFDBITS) - 1) - a

\* __FD_ELT(d): (d) / __NFDBITS.
FD_ELT(d) == CDiv(d, NFDBITS)

\* __FD_MASK(d): 1UL << ((d) % __NFDBITS), for a shift count in range.
FD_MASK(d) == 2 ^ CMod(d, NFDBITS)

\* Variants of SetWord: word = mask, word ^= mask, and the mask of d + 1.
SetWord_assign(d, w) == FD_MASK(d)

SetWord_xor(d, w) == IF BitAnd(w, FD_MASK(d)) # 0 THEN w - FD_MASK(d) ELSE w + FD_MASK(d)

SetWord_next(d, w) == BitOr(w, FD_MASK(d + 1))

\* FD_SET's word |= __FD_MASK(d)
SetWord(d, w) == BitOr(w, FD_MASK(d))

\* Variants of ClrWord: word &= mask (the complement left out), and no store.
ClrWord_nonot(d, w) == BitAnd(w, FD_MASK(d))

ClrWord_noop(d, w) == w

\* FD_CLR's word &= ~__FD_MASK(d)
ClrWord(d, w) == BitAnd(w, BitNot(FD_MASK(d)))

\* FD_ISSET's (word & __FD_MASK(d)) != 0
TestWord(d, w) == IF BitAnd(w, FD_MASK(d)) # 0 THEN 1 ELSE 0

\* A variant of fd_zero that stores only the first word.
fd_zero_first(s) == [i \in DOMAIN s |-> IF i = 0 THEN 0 ELSE s[i]]

\* FD_ZERO(set): every word of the array is stored as 0.
fd_zero(s) == [i \in DOMAIN s |-> 0]

\* FD_SET(d, set)
fd_setter(d, s) == [s EXCEPT ![FD_ELT(d)] = SetWord(d, @)]

\* FD_ISSET(d, set)
fd_isset(d, s) == TestWord(d, s[FD_ELT(d)])

\* FD_CLR(d, set)
fd_clr(d, s) == [s EXCEPT ![FD_ELT(d)] = ClrWord(d, @)]

EmptySet == [i \in Words |-> 0]

VARIABLES
    set,        \* the fd_set of the single-threaded caller
    ret,        \* what the caller's most recent fd_isset returned
    last,       \* the caller's most recent call
    penult,     \* the call before it
    touch,      \* per descriptor, the most recent call that concerned it
    crashed,    \* the process trapped
    clobbered,  \* memory outside the caller's fd_set was written
    errno,      \* the process's error indicator
    sets,       \* the fd_sets the threads share
    pc,         \* each thread's position in its call
    op,         \* each thread's current call
    reg,        \* the word (or, in fd_zero, the index) a thread holds
    abs,        \* the sets' contents had every store been an atomic update
    raced,      \* per set: a store landed while another thread held its word
    ncalls      \* calls begun by the threads

seqVars == <<set, ret, last, penult>>

ubVars == <<crashed, clobbered, errno>>

concVars == <<sets, pc, op, reg, abs, raced, ncalls>>

vars == <<set, ret, last, penult, touch, crashed, clobbered, errno,
          sets, pc, op, reg, abs, raced, ncalls>>

Sets == {"s1", "s2"}

Threads == {"t1", "t2"}

NoCall == [fn |-> "none", d |-> 0]

Call(fn, d) == [fn |-> fn, d |-> d]

NoOp == [fn |-> "none", d |-> 0, s |-> "s1"]

Init ==
    /\ set = EmptySet
    /\ ret = 0
    /\ last = NoCall
    /\ penult = NoCall
    /\ touch = [d \in Descriptors |-> "fd_zero"]
    /\ crashed = FALSE
    /\ clobbered = FALSE
    /\ errno = "none"
    /\ sets = [s \in Sets |-> EmptySet]
    /\ pc = [t \in Threads |-> "idle"]
    /\ op = [t \in Threads |-> NoOp]
    /\ reg = [t \in Threads |-> 0]
    /\ abs = [s \in Sets |-> EmptySet]
    /\ raced = [s \in Sets |-> FALSE]
    /\ ncalls = 0

\* The caller's record of its calls.
Record(c) == last' = c /\ penult' = last

(***************************************************************************)
(* Spec: one thread calls the four functions on its fd_set with valid      *)
(* descriptors, in any order.                                              *)
(***************************************************************************)
Call_fd_zero ==
    /\ set' = fd_zero(set)
    /\ ret' = ret
    /\ Record(Call("fd_zero", 0))
    /\ UNCHANGED <<touch, ubVars, concVars>>

Call_fd_setter(d) ==
    /\ set' = fd_setter(d, set)
    /\ ret' = ret
    /\ Record(Call("fd_setter", d))
    /\ UNCHANGED <<touch, ubVars, concVars>>

\* A variant of Call_fd_isset that tests the bit and clears it.
Call_fd_isset_clearing(d) ==
    /\ ret' = fd_isset(d, set)
    /\ set' = fd_clr(d, set)
    /\ Record(Call("fd_isset", d))
    /\ UNCHANGED <<touch, ubVars, concVars>>

Call_fd_isset(d) ==
    /\ ret' = fd_isset(d, set)
    /\ set' = set
    /\ Record(Call("fd_isset", d))
    /\ UNCHANGED <<touch, ubVars, concVars>>

Call_fd_clr(d) ==
    /\ set' = fd_clr(d, set)
    /\ ret' = ret
    /\ Record(Call("fd_clr", d))
    /\ UNCHANGED <<touch, ubVars, concVars>>

Next ==
    \/ Call_fd_zero
    \/ \E d \in Descriptors : Call_fd_setter(d)
    \/ \E d \in Descriptors : Call_fd_isset(d)
    \/ \E d \in Descriptors : Call_fd_clr(d)

Spec == Init /\ [][Next]_vars

\* C1: for every valid d and every reachable set, fd_isset(d, set) called
\* directly after fd_setter(d, set) returns non-zero.
C1_AddThenContains ==
    \A d \in Descriptors :
        (penult = Call("fd_setter", d) /\ last = Call("fd_isset", d)) => ret = 1

C1_Witness ==
    \E d \in Descriptors :
        /\ penult = Call("fd_setter", d)
        /\ last = Call("fd_isset", d)
        /\ ret = 1
        /\ \E e \in Descriptors : e # d /\ fd_isset(e, set) = 1

\* C2: directly after fd_zero(set), whatever calls came before, fd_isset
\* is false for every valid descriptor, and a following fd_isset call returns 0.
C2_ClearThenContainsNone ==
    /\ last = Call("fd_zero", 0) => \A d \in Descriptors : fd_isset(d, set) = 0
    /\ (penult = Call("fd_zero", 0) /\ last.fn = "fd_isset") => ret = 0

C2_Witness ==
    /\ penult.fn = "fd_setter"
    /\ FD_ELT(penult.d) # 0
    /\ last = Call("fd_zero", 0)
    /\ \A d \in Descriptors : fd_isset(d, set) = 0

\* C3: when fd_setter(d, set) is followed directly by fd_clr(d, set) (d the
\* descriptor of the call before last), the fd_isset(d, set) call that
\* comes next returns 0.
C3_AddRemoveThenAbsent ==
    [][(/\ penult.fn = "fd_setter"
        /\ last = Call("fd_clr", penult.d)
        /\ Call_fd_isset(penult.d)) => ret' = 0]_vars

C3_Witness ==
    \E d \in Descriptors :
        /\ penult = Call("fd_setter", d)
        /\ last = Call("fd_clr", d)
        /\ fd_isset(d, set) = 0
        /\ \E e \in Descriptors : FD_ELT(e) = FD_ELT(d) /\ fd_isset(e, set) = 1

\* C4: a second consecutive fd_setter(d, set) (the last call repeated)
\* leaves the whole set as the first left it; likewise a second
\* fd_clr(d, set) and a second fd_zero(set).
C4_Idempotent ==
    [][/\ (last.fn = "fd_setter" /\ Call_fd_setter(last.d)) => set' = set
       /\ (last.fn = "fd_clr" /\ Call_fd_clr(last.d)) => set' = set
       /\ (last.fn = "fd_zero" /\ Call_fd_zero) => set' = set]_vars

C4_Witness ==
    \E d \in Descriptors :
        /\ penult = Call("fd_setter", d)
        /\ last = Call("fd_setter", d)
        /\ fd_isset(d, set) = 1

\* C5: every fd_setter(d1, set) step leaves fd_isset(d2, set) as it was
\* for every valid d2 other than d1.
C5_AddIndependent ==
    [][(last'.fn = "fd_setter" /\ Call_fd_setter(last'.d)) =>
          \A d2 \in Descriptors \ {last'.d} :
              fd_isset(d2, set') = fd_isset(d2, set)]_vars

C5_Witness ==
    \E d1 \in Descriptors :
        /\ last = Call("fd_setter", d1)
        /\ fd_isset(d1, set) = 1
        /\ \E d2 \in Descriptors \ {d1} :
              FD_ELT(d2) = FD_ELT(d1) /\ fd_isset(d2, set) = 1
        /\ \E d3 \in Descriptors : fd_isset(d3, set) = 0

\* C6: every fd_isset(d, set) step leaves the set as it was, and when it
\* repeats the last call it returns the same value again.
C6_ContainsPure ==
    [][(last'.fn = "fd_isset" /\ Call_fd_isset(last'.d)) =>
          /\ set' = set
          /\ last = last' => ret' = ret]_vars

C6_Witness ==
    \E d \in Descriptors :
        /\ penult = Call("fd_isset", d)
        /\ last = Call("fd_isset", d)
        /\ ret = 1
        /\ fd_isset(d, set) = 1

(***************************************************************************)
(* SpecAbs: the same single-threaded caller, starting from a cleared set,  *)
(* with the most recent call concerning each descriptor written down.      *)
(***************************************************************************)
Traced_fd_zero ==
    /\ set' = fd_zero(set)
    /\ touch' = [d \in Descriptors |-> "fd_zero"]
    /\ last' = Call("fd_zero", 0)
    /\ UNCHANGED <<ret, penult, ubVars, concVars>>

Traced_fd_setter(d) ==
    /\ set' = fd_setter(d, set)
    /\ touch' = [touch EXCEPT ![d] = "fd_setter"]
    /\ last' = Call("fd_setter", d)
    /\ UNCHANGED <<ret, penult, ubVars, concVars>>

Traced_fd_isset(d) ==
    /\ ret' = fd_isset(d, set)
    /\ last' = Call("fd_isset", d)
    /\ UNCHANGED <<set, touch, penult, ubVars, concVars>>

Traced_fd_clr(d) ==
    /\ set' = fd_clr(d, set)
    /\ touch' = [touch EXCEPT ![d] = "fd_clr"]
    /\ last' = Call("fd_clr", d)
    /\ UNCHANGED <<ret, penult, ubVars, concVars>>

NextAbs ==
    \/ Traced_fd_zero
    \/ \E d \in Descriptors : Traced_fd_setter(d)
    \/ \E d \in Descriptors : Traced_fd_isset(d)
    \/ \E d \in Descriptors : Traced_fd_clr(d)

SpecAbs == Init /\ [][NextAbs]_vars

\* C10: from a cleared set, after any sequence of calls with valid
\* descriptors, fd_isset(d, set) is non-zero (and an fd_isset(d, set) call
\* just made returned non-zero) exactly when the most recent of
\* fd_zero(set), fd_setter(d, set) and fd_clr(d, set) was fd_setter(d, set).
C10_AbstractSet ==
    /\ \A d \in Descriptors : (fd_isset(d, set) = 1) <=> (touch[d] = "fd_setter")
    /\ last.fn = "fd_isset" => ((ret = 1) <=> (touch[last.d] = "fd_setter"))

C10_Witness ==
    \E d1, d2 \in Descriptors :
        /\ d2 = d1 + 1
        /\ FD_ELT(d1) = FD_ELT(d2)
        /\ last = Call("fd_isset", d2)
        /\ ret = 1
        /\ touch[d1] = "fd_clr"
        /\ touch[d2] = "fd_setter"
        /\ fd_isset(d1, set) = 0
        /\ fd_isset(d2, set) = 1

(***************************************************************************)
(* SpecUB: the single-threaded caller passes any descriptor, in range or   *)
(* not.  None of the functions looks at the range.  With d out of range    *)
(* the macro indexes the array out of bounds, or shifts by a negative      *)
(* count: undefined behaviour, modelled as the choice between what builds  *)
(* do with it.  A fortified or sanitised build, or an unmapped address,    *)
(* traps.  Otherwise the access goes to word d / NFDBITS (truncated        *)
(* toward zero, so word 0 for -NFDBITS < d < 0) with the mask the shifter  *)
(* yields: the count taken modulo the word size, or no bit at all.         *)
(***************************************************************************)
ShiftOutcomes(c) ==
    IF c \in 0 .. (NFDBITS - 1) THEN {2 ^ c} ELSE {2 ^ (c % NFDBITS), 0}

OrMask(w, m) == BitOr(w, m)

AndNotMask(w, m) == BitAnd(w, BitNot(m))

\* An out-of-range read-modify-write of word FD_ELT(d) by fd_setter or
\* fd_clr: the process traps, or nothing is stored, or the store happens:
\* inside the array it changes the set, outside it some other memory.
WildWrite(d, fn) ==
    \/ /\ crashed' = TRUE
       /\ UNCHANGED <<set, clobbered>>
    \/ /\ crashed' = FALSE
       /\ UNCHANGED <<set, clobbered>>
    \/ \E m \in ShiftOutcomes(CMod(d, NFDBITS)) :
          /\ crashed' = FALSE
          /\ IF FD_ELT(d) \in Words
             THEN /\ set' = [set EXCEPT ![FD_ELT(d)] =
                                IF fn = "fd_setter" THEN OrMask(@, m) ELSE AndNotMask(@, m)]
                  /\ clobbered' = clobbered
             ELSE /\ set' = set
                  /\ clobbered' = (clobbered \/ m # 0)

UB_fd_zero ==
    /\ ~crashed
    /\ set' = fd_zero(set)
    /\ last' = Call("fd_zero", 0)
    /\ UNCHANGED <<ret, penult, touch, ubVars, concVars>>

\* A variant of UB_fd_setter that checks the range and reports EBADF.
UB_fd_setter_checked(d) ==
    /\ ~crashed
    /\ last' = Call("fd_setter", d)
    /\ IF Valid(d)
       THEN set' = fd_setter(d, set) /\ errno' = errno
       ELSE set' = set /\ errno' = "EBADF"
    /\ UNCHANGED <<ret, penult, touch, crashed, clobbered, concVars>>

UB_fd_setter(d) ==
    /\ ~crashed
    /\ last' = Call("fd_setter", d)
    /\ IF Valid(d)
       THEN set' = fd_setter(d, set) /\ UNCHANGED <<crashed, clobbered>>
       ELSE WildWrite(d, "fd_setter")
    /\ UNCHANGED <<ret, penult, touch, errno, concVars>>

UB_fd_isset(d) ==
    /\ ~crashed
    /\ last' = Call("fd_isset", d)
    /\ IF Valid(d)
       THEN ret' = fd_isset(d, set) /\ crashed' = FALSE
       ELSE \/ crashed' = TRUE /\ ret' = ret
            \/ /\ crashed' = FALSE
               /\ IF FD_ELT(d) \in Words
                  THEN \E m \in ShiftOutcomes(CMod(d, NFDBITS)) :
                          ret' = (IF BitAnd(set[FD_ELT(d)], m) # 0 THEN 1 ELSE 0)
                  ELSE ret' \in {0, 1}
    /\ UNCHANGED <<set, penult, touch, clobbered, errno, concVars>>

UB_fd_clr(d) ==
    /\ ~crashed
    /\ last' = Call("fd_clr", d)
    /\ IF Valid(d)
       THEN set' = fd_clr(d, set) /\ UNCHANGED <<crashed, clobbered>>
       ELSE WildWrite(d, "fd_clr")
    /\ UNCHANGED <<ret, penult, touch, errno, concVars>>

NextUB ==
    \/ UB_fd_zero
    \/ \E d \in AnyDescriptor : UB_fd_setter(d)
    \/ \E d \in AnyDescriptor : UB_fd_isset(d)
    \/ \E d \in AnyDescriptor : UB_fd_clr(d)

SpecUB == Init /\ [][NextUB]_vars

\* C9 as claimed: a call with a descriptor out of range returns normally,
\* reports nothing, and leaves the set's own bits as they were.
C9_InvalidReturnsOutsideSet ==
    [][\A d \in AnyDescriptor \ Descriptors :
          (UB_fd_setter(d) \/ UB_fd_clr(d) \/ UB_fd_isset(d)) =>
              (~crashed' /\ errno' = "none" /\ set' = set)]_vars

\* C9, amended: no call validates its descriptor or reports an error: the
\* error indicator is never set, fd_isset returns only 0 or 1, and a call
\* with a valid descriptor never traps; what a call with a descriptor out
\* of range does is undefined.
C9_Unchecked ==
    /\ errno = "none"
    /\ ret \in {0, 1}
    /\ crashed => ~Valid(last.d)

C9_Witness ==
    /\ last.fn = "fd_setter"
    /\ ~Valid(last.d)
    /\ ~crashed
    /\ clobbered
    /\ errno = "none"

(***************************************************************************)
(* SpecConc: two threads call fd_zero, fd_setter and fd_clr on the two     *)
(* fd_sets with valid descriptors and no synchronisation.  The functions   *)
(* take no lock: word |= mask and word &= ~mask are a load of the word     *)
(* and a later store of the new value, and fd_zero stores its words one    *)
(* after the other; the threads interleave between these accesses.         *)
(***************************************************************************)
\* A variant of LoadWord that works on a fresh copy instead of the caller's set.
LoadWord_fresh(m, s, w) == 0

\* __FDS_BITS(set)[w], read through the caller's pointer.
LoadWord(m, s, w) == m[s][w]

\* A variant of StoreWord that writes one buffer all the sets share.
StoreWord_shared(m, s, w, v) == [x \in DOMAIN m |-> [m[x] EXCEPT ![w] = v]]

\* __FDS_BITS(set)[w] = v, written through the caller's pointer.
StoreWord(m, s, w, v) == [m EXCEPT ![s][w] = v]

\* The value a call stores, from the word value it works on.
NewWord(o, w) ==
    IF o.fn = "fd_setter" THEN SetWord(o.d, w)
    ELSE IF o.fn = "fd_clr" THEN ClrWord(o.d, w)
    ELSE 0

\* Another thread has loaded word w of set s and not yet stored it.
HeldByOther(t, s, w) ==
    \E u \in Threads \ {t} :
        pc[u] = "loaded" /\ op[u].s = s /\ FD_ELT(op[u].d) = w

\* A thread enters fd_setter and loads the descriptor's word.
Begin_fd_setter(t, d, s) ==
    /\ pc[t] = "idle"
    /\ ncalls < MaxCalls
    /\ ncalls' = ncalls + 1
    /\ pc' = [pc EXCEPT ![t] = "loaded"]
    /\ op' = [op EXCEPT ![t] = [fn |-> "fd_setter", d |-> d, s |-> s]]
    /\ reg' = [reg EXCEPT ![t] = LoadWord(sets, s, FD_ELT(d))]
    /\ UNCHANGED <<sets, abs, raced, seqVars, touch, ubVars>>

\* A thread enters fd_clr and loads the descriptor's word.
Begin_fd_clr(t, d, s) ==
    /\ pc[t] = "idle"
    /\ ncalls < MaxCalls
    /\ ncalls' = ncalls + 1
    /\ pc' = [pc EXCEPT ![t] = "loaded"]
    /\ op' = [op EXCEPT ![t] = [fn |-> "fd_clr", d |-> d, s |-> s]]
    /\ reg' = [reg EXCEPT ![t] = LoadWord(sets, s, FD_ELT(d))]
    /\ UNCHANGED <<sets, abs, raced, seqVars, touch, ubVars>>

\* The store that ends fd_setter or fd_clr: the loaded value, modified.
Store(t) ==
    /\ pc[t] = "loaded"
    /\ LET s == op[t].s
           w == FD_ELT(op[t].d)
       IN /\ sets' = StoreWord(sets, s, w, NewWord(op[t], reg[t]))
          /\ abs' = [abs EXCEPT ![s][w] = NewWord(op[t], @)]
          /\ raced' = [raced EXCEPT ![s] = @ \/ HeldByOther(t, s, w)]
    /\ pc' = [pc EXCEPT ![t] = "idle"]
    /\ op' = [op EXCEPT ![t] = NoOp]
    /\ reg' = [reg EXCEPT ![t] = 0]
    /\ UNCHANGED <<ncalls, seqVars, touch, ubVars>>

\* A thread enters fd_zero: the loop index starts at 0.
Begin_fd_zero(t, s) ==
    /\ pc[t] = "idle"
    /\ ncalls < MaxCalls
    /\ ncalls' = ncalls + 1
    /\ pc' = [pc EXCEPT ![t] = "zeroing"]
    /\ op' = [op EXCEPT ![t] = [fn |-> "fd_zero", d |-> 0, s |-> s]]
    /\ reg' = [reg EXCEPT ![t] = 0]
    /\ UNCHANGED <<sets, abs, raced, seqVars, touch, ubVars>>

\* One iteration of fd_zero's loop: word i is stored as 0.
ZeroStep(t) ==
    /\ pc[t] = "zeroing"
    /\ LET s == op[t].s
           i == reg[t]
       IN /\ sets' = StoreWord(sets, s, i, 0)
          /\ abs' = [abs EXCEPT ![s][i] = 0]
          /\ raced' = [raced EXCEPT ![s] = @ \/ HeldByOther(t, s, i)]
          /\ IF i + 1 \in Words
             THEN /\ reg' = [reg EXCEPT ![t] = i + 1]
                  /\ UNCHANGED <<pc, op>>
             ELSE /\ reg' = [reg EXCEPT ![t] = 0]
                  /\ pc' = [pc EXCEPT ![t] = "idle"]
                  /\ op' = [op EXCEPT ![t] = NoOp]
    /\ UNCHANGED <<ncalls, seqVars, touch, ubVars>>

NextConc ==
    \/ \E t \in Threads, d \in Descriptors, s \in Sets : Begin_fd_setter(t, d, s)
    \/ \E t \in Threads, d \in Descriptors, s \in Sets : Begin_fd_clr(t, d, s)
    \/ \E t \in Threads, s \in Sets : Begin_fd_zero(t, s)
    \/ \E t \in Threads : Store(t)
    \/ \E t \in Threads : ZeroStep(t)

SpecConc == Init /\ [][NextConc]_vars

\* C7: a step of a call on one fd_set, whatever the other thread is in
\* the middle of, leaves every descriptor of every other fd_set as it was.
C7_DistinctSetsIndependent ==
    [][\A t \in Threads :
          (Store(t) \/ ZeroStep(t)) =>
              \A s \in Sets \ {op[t].s} : sets'[s] = sets[s]]_vars

C7_Witness ==
    \E t, u \in Threads :
        /\ t # u
        /\ pc[t] = "idle"
        /\ pc[u] = "loaded"
        /\ op[u].s = "s2"
        /\ sets["s1"] # EmptySet
        /\ sets["s2"] # EmptySet
        /\ reg[u] = LoadWord(sets, "s2", FD_ELT(op[u].d))

\* C8: unsynchronised calls on the same fd_set race: an update is lost
\* (C8_Witness: after two overlapping fd_setter calls one descriptor is
\* missing), and a set differs from what atomic updates would have left
\* only after a store landed while another thread held the same word.
C8_LostUpdateOnlyByRace ==
    \A s \in Sets : ~raced[s] => sets[s] = abs[s]

C8_Witness ==
    \E s \in Sets : \E d1, d2 \in Descriptors :
        /\ d1 # d2
        /\ FD_ELT(d1) = FD_ELT(d2)
        /\ \A t \in Threads : pc[t] = "idle"
        /\ ncalls = Cardinality(Threads)
        /\ raced[s]
        /\ fd_isset(d1, abs[s]) = 1
        /\ fd_isset(d2, abs[s]) = 1
        /\ fd_isset(d1, sets[s]) = 0
        /\ fd_isset(d2, sets[s]) = 1

====
